---- MODULE Spec2Model ----
(***************************************************************************)
(* Model of Scripts/minifyShadersFolder.py: the shader minifier/packer.    *)
(*                                                                         *)
(* Text is modelled as a sequence of one-character strings, so that the    *)
(* regular-expression substitutions, path functions and substring tests of *)
(* the script are computed character by character.  Python's sys.argv[k]   *)
(* is argv[k + 1] here (TLA+ sequences start at 1).                        *)
(***************************************************************************)
EXTENDS Integers, Sequences, FiniteSets, TLC

VARIABLES
    \* environment of the process (unchanged by the script)
    argv,            \* sys.argv
    dir,             \* the files glob finds, in discovery order: [name, mtime, readable, text]
    platformSystem,  \* what platform.system() returns
    slangResult,     \* what the compiler does: [returncode, data] (data: bytes of its output file)
    outWritable,     \* whether outputFile can be opened for writing
    now,             \* the filesystem clock
    \* artifacts on disk
    outputHeader,    \* the primary artifact: [exists, mtime, byRun, banner, strings, directory, closed]
    compiledHeader,  \* the secondary artifact: [exists, byRun, path, variableName, numWords, headerStr]
    \* the script's position, exit status and console output
    pc, exitCode, printed,
    \* the script's variables
    hlslFolder, slangc, mainEntryPoint, target, files, outputModTime, numFiles, n,
    rebuildNeeded, entryPointFile, directoryString, fileIdx, lines, stringName,
    currOutputStr, lineNo,
    \* history: which run this is, and how the previous run ended
    run, prev

envVars == <<argv, dir, platformSystem, slangResult, outWritable>>
diskVars == <<outputHeader, compiledHeader>>
argVars == <<hlslFolder, slangc, mainEntryPoint, target, files>>
gateVars == <<outputModTime, numFiles, rebuildNeeded, entryPointFile>>
fileVars == <<fileIdx, lines, stringName, currOutputStr, lineNo>>
histVars == <<run, prev, now>>
vars == <<envVars, diskVars, pc, exitCode, printed, argVars, gateVars, n,
          directoryString, fileVars, histVars>>

-----------------------------------------------------------------------------
(* Bounds of the model. *)

MaxFiles == 2
MaxRuns == 2
MaxTime == 3
MaxLen == 4
MaxBytes == 5
StartTime == 2

-----------------------------------------------------------------------------
(* Text helpers. *)

NL == "\n"
BS == "\\"
QT == "\""

RECURSIVE Concat(_)
\* ''.join(ss)
Concat(ss) == IF ss = <<>> THEN <<>> ELSE Head(ss) \o Concat(Tail(ss))

\* needle occurs in s at position i
OccursAt(needle, s, i) ==
    /\ i >= 1
    /\ i + Len(needle) - 1 <= Len(s)
    /\ \A k \in 1..Len(needle) : s[i + k - 1] = needle[k]

\* Python's `needle in s` for strings
IsSubstring(needle, s) == \E i \in 1..(Len(s) + 1) : OccursAt(needle, s, i)

IsPrefix(p, s) == OccursAt(p, s, 1)

\* number of characters c in s
Count(c, s) == Cardinality({i \in 1..Len(s) : s[i] = c})

\* index of the last c in s, 0 if none
LastIndexOf(c, s) ==
    LET I == {i \in 1..Len(s) : s[i] = c}
    IN  IF I = {} THEN 0 ELSE CHOOSE i \in I : \A j \in I : j <= i

\* index of the first c in s at or after position from, 0 if none
FirstIndexFrom(c, s, from) ==
    LET I == {i \in from..Len(s) : s[i] = c}
    IN  IF I = {} THEN 0 ELSE CHOOSE i \in I : \A j \in I : i <= j

\* os.path.basename as posixpath computes it: what follows the last "/"
\* (ntpath splits at backslashes too)
Basename(path) == SubSeq(path, LastIndexOf("/", path) + 1, Len(path))

\* os.path.splitext(p)[0] for a p without "/": cut at the last dot, unless only
\* dots precede it
SplitextRoot(p) ==
    LET d == LastIndexOf(".", p)
    IN  IF d > 0 /\ \E k \in 1..(d - 1) : p[k] # "."
        THEN SubSeq(p, 1, d - 1)
        ELSE p

\* glob's pattern '*.*sl*' on a file name: a dot, later "sl"; glob skips
\* names starting with a dot
GlobMatch(name) ==
    /\ Len(name) > 0
    /\ name[1] # "."
    /\ \E i \in 1..Len(name) :
          /\ name[i] = "."
          /\ \E j \in (i + 1)..Len(name) : OccursAt(<<"s", "l">>, name, j)

RECURSIVE ReadLines(_)
\* file.readlines(): each line keeps its terminator; the last may have none
ReadLines(text) ==
    IF text = <<>> THEN <<>>
    ELSE LET e == FirstIndexFrom(NL, text, 1)
         IN  IF e = 0 THEN <<text>>
             ELSE <<SubSeq(text, 1, e)>> \o ReadLines(SubSeq(text, e + 1, Len(text)))

-----------------------------------------------------------------------------
(* The per-line transform, lines 172-197. *)

RECURSIVE SubEach(_, _, _)
\* re.sub of the one-character pattern c by the replacement text rep
SubEach(c, rep, s) ==
    IF s = <<>> THEN <<>>
    ELSE (IF Head(s) = c THEN rep ELSE <<Head(s)>>) \o SubEach(c, rep, Tail(s))

RECURSIVE StripComments(_)
\* re.sub(r"//.*\n", "\n", ln): a match starts at a "//" that has a newline
\* after it on the same line and runs up to and including that newline
StripComments(s) ==
    IF s = <<>> THEN <<>>
    ELSE LET e == FirstIndexFrom(NL, s, 3)
         IN  IF OccursAt(<<"/", "/">>, s, 1) /\ e # 0
             THEN <<NL>> \o StripComments(SubSeq(s, e + 1, Len(s)))
             ELSE <<Head(s)>> \o StripComments(Tail(s))

\* re.sub(r"\\", "\\\\\\\\", ln): every backslash becomes two
DoubleBackslashes(s) == SubEach(BS, <<BS, BS>>, s)

\* re.sub(r"\n", "\\\\n", ln): a newline becomes backslash, n
EscapeNewlines(s) == SubEach(NL, <<BS, "n">>, s)

\* [^\S\r\n]: whitespace other than \r and \n
IsBlank(c) == c \in {" ", "\t", "\f"}

RECURSIVE CollapseWhitespace(_)
\* re.sub(r"[^\S\r\n]+", " ", ln)
CollapseWhitespace(s) ==
    IF s = <<>> THEN <<>>
    ELSE IF IsBlank(Head(s))
         THEN IF Len(s) > 1 /\ IsBlank(s[2])
              THEN CollapseWhitespace(Tail(s))
              ELSE <<" ">> \o CollapseWhitespace(Tail(s))
         ELSE <<Head(s)>> \o CollapseWhitespace(Tail(s))

\* re.sub(r"\"", "\\\"", ln): a quote becomes backslash, quote
EscapeQuotes(s) == SubEach(QT, <<BS, QT>>, s)

\* lines 182-190, in the script's order
TransformLine(ln) ==
    EscapeQuotes(CollapseWhitespace(EscapeNewlines(DoubleBackslashes(StripComments(ln)))))

\* line 173: '#line 1 "' + re.sub(r"\\", "/", hlslFile) + '"\n'
LineDirective(hlslFile) ==
    <<"#", "l", "i", "n", "e", " ", "1", " ", QT>> \o SubEach(BS, <<"/">>, hlslFile) \o <<QT, NL>>

\* the transform without lines 195-197: nothing appended after the last line
AppendNoFinalNewline(ln, no, total) == ln

\* lines 195-197: the last line gets one more escaped newline
AppendFinalNewline(ln, no, total) == IF no = total THEN ln \o <<BS, "n">> ELSE ln

-----------------------------------------------------------------------------
(* Names and paths, lines 26, 30, 83-101, 136, 162. *)

Txt_g_s == <<"g", "_", "s">>

\* line 136
directorySymbolName == Txt_g_s \o <<"D", "i", "r", "e", "c", "t", "o", "r", "y">>

\* line 30
DefaultEntryPoint ==
    <<"M", "a", "i", "n", "E", "n", "t", "r", "y", "P", "o", "i", "n", "t", "s">>

Metal == <<"m", "e", "t", "a", "l">>
Dxil == <<"d", "x", "i", "l">>
Spirv == <<"s", "p", "i", "r", "v">>

\* line 203: a chunk is flushed once it is longer than this
ChunkLimit == 100

\* line 162: "g_s" + os.path.splitext(os.path.basename(hlslFile))[0]
StringNameOf(hlslFile) == Txt_g_s \o SplitextRoot(Basename(hlslFile))

\* line 26: os.path.splitext(os.path.basename(outputFile))[0]
NameSpaceNameOf(outputFile) == SplitextRoot(Basename(outputFile))

\* line 38: glob returns folder + "/" + name for every matching name (for a
\* folder that does not itself end in "/")
GlobFiles(folder, listing) == [i \in 1..Len(listing) |-> folder \o <<"/">> \o listing[i].name]

\* os.path.dirname (posixpath): up to the last "/", trailing slashes dropped
\* unless nothing else is left
Dirname(path) ==
    LET i == LastIndexOf("/", path)
        head == SubSeq(path, 1, i)
        k == CHOOSE m \in 0..i : /\ \A j \in (m + 1)..i : head[j] = "/"
                                 /\ (m = 0 \/ head[m] # "/")
    IN  IF k = 0 THEN head ELSE SubSeq(head, 1, k)

\* lines 85, 92, 98: the secondary header's path; os.path.join for metal, plain
\* concatenation with "/" for the others
CompiledFileOf(tgt, outputFile, entry) ==
    LET d == Dirname(outputFile)
    IN  IF tgt = Metal
        THEN (IF d = <<>> THEN <<>> ELSE IF d[Len(d)] = "/" THEN d ELSE d \o <<"/">>)
             \o entry \o <<".", "h">>
        ELSE d \o <<"/">> \o entry \o <<".", "h">>

\* lines 88, 95, 101
VariableNameOf(tgt, entry) ==
    Txt_g_s \o entry \o
    (IF tgt = Metal THEN Metal
     ELSE IF tgt = Dxil THEN <<"D", "X", "I", "L">>
     ELSE <<"S", "P", "I", "R", "V">>)

-----------------------------------------------------------------------------
(* The freshness test, lines 52-57. *)

\* line 56 with >= for >
NewerOrSame(fileModTime, outModTime) == fileModTime >= outModTime

\* line 56
Newer(fileModTime, outModTime) == fileModTime > outModTime

\* lines 52-57: any input newer than the output
AnyNewer(listing, outModTime) ==
    \E i \in 1..Len(listing) : Newer(listing[i].mtime, outModTime)

\* lines 53-54: the last file whose path contains the entry point name
EntryPointFileOf(paths, entry) ==
    LET I == {i \in 1..Len(paths) : IsSubstring(entry, paths[i])}
    IN  IF I = {} THEN <<>> ELSE paths[CHOOSE i \in I : \A j \in I : j <= i]

-----------------------------------------------------------------------------
(* The word array, lines 109-121. *)

HexDigits ==
    <<"0", "1", "2", "3", "4", "5", "6", "7", "8", "9", "a", "b", "c", "d", "e", "f">>

\* bytes.hex() of one byte
HexOfByte(b) == <<HexDigits[(b \div 16) + 1], HexDigits[(b % 16) + 1]>>

\* line 112: math.ceil(numBytes / 4)
NumWordsOf(numBytes) == (numBytes + 3) \div 4

\* line 115: the bytes read for word i (Python indices 4i+3, 4i+2, 4i+1, 4i)
WordIndices(i) == <<i * 4 + 3, i * 4 + 2, i * 4 + 1, i * 4 + 0>>

\* line 115: an index at or past len(data) raises IndexError
WordInRange(data, i) == \A k \in 1..4 : WordIndices(i)[k] < Len(data)

\* line 116: "0x" + wordBytes.hex()
WordToken(data, i) ==
    <<"0", "x">> \o Concat([k \in 1..4 |-> HexOfByte(data[WordIndices(i)[k] + 1])])

RECURSIVE PackLoop(_, _, _, _)
\* lines 114-120: [raised, headerStr]; headerStr is the sequence of pieces added
PackLoop(data, i, numWords, headerStr) ==
    IF i = numWords THEN [raised |-> FALSE, headerStr |-> headerStr]
    ELSE IF ~WordInRange(data, i) THEN [raised |-> TRUE, headerStr |-> headerStr]
    ELSE PackLoop(data, i + 1, numWords,
                  headerStr \o <<WordToken(data, i)>>
                    \o (IF i < numWords - 1 THEN <<<<",", " ">>>> ELSE <<>>)
                    \o (IF i % 8 = 7 THEN <<<<NL>>>> ELSE <<>>))

\* lines 110-121
PackWords(data) == PackLoop(data, 0, NumWordsOf(Len(data)), <<>>)

\* the array entries of a headerStr: the pieces that start with "0x"
EntriesOf(headerStr) == SelectSeq(headerStr, LAMBDA t : IsPrefix(<<"0", "x">>, t))

-----------------------------------------------------------------------------
(* The directory map string, lines 137-138 and 212-216, as its pieces. *)

DirToken(kind, key, value) == [kind |-> kind, key |-> key, value |-> value]

DirectoryBegin == <<DirToken("begin", <<>>, directorySymbolName)>>

\* lines 212-216 with the count compared before it is incremented
DirectoryAppendOffByOne(dirString, count, total, baseFilename, name) ==
    dirString \o <<DirToken("entry", baseFilename, name)>>
              \o (IF count - 1 = total THEN <<DirToken("end", <<>>, <<>>)>>
                  ELSE <<DirToken("separator", <<>>, <<>>)>>)

\* lines 212-216, with n already incremented
DirectoryAppend(dirString, count, total, baseFilename, name) ==
    dirString \o <<DirToken("entry", baseFilename, name)>>
              \o (IF count = total THEN <<DirToken("end", <<>>, <<>>)>>
                  ELSE <<DirToken("separator", <<>>, <<>>)>>)

-----------------------------------------------------------------------------
(* The state of a fresh process, and of a disk with no artifact yet. *)

NoHeader ==
    [exists |-> FALSE, mtime |-> 0, byRun |-> 0, banner |-> <<>>,
     strings |-> <<>>, directory |-> <<>>, closed |-> FALSE]

NoCompiledHeader ==
    [exists |-> FALSE, byRun |-> 0, path |-> <<>>, variableName |-> <<>>,
     numWords |-> 0, headerStr |-> <<>>]

NoPrev == [exitCode |-> 0, printed |-> {}, opened |-> FALSE, openTime |-> 0]

\* the script's variables before line 23 has run
ProcessStart ==
    /\ pc = "parse"
    /\ exitCode = 0
    /\ printed = {}
    /\ hlslFolder = <<>>
    /\ slangc = <<>>
    /\ mainEntryPoint = <<>>
    /\ target = <<>>
    /\ files = <<>>
    /\ outputModTime = 0
    /\ numFiles = 0
    /\ n = 0
    /\ rebuildNeeded = FALSE
    /\ entryPointFile = <<>>
    /\ directoryString = <<>>
    /\ fileIdx = 0
    /\ lines = <<>>
    /\ stringName = <<>>
    /\ currOutputStr = <<>>
    /\ lineNo = 0

\* sys.exit(code) after printing msg
Exit(code, msg) ==
    /\ pc' = "exit"
    /\ exitCode' = code
    /\ printed' = printed \cup msg

-----------------------------------------------------------------------------
(* The script, one action per step. *)

\* lines 13-21
Usage ==
    /\ pc = "parse"
    /\ (Len(argv) < 3 \/ Len(argv) > 6)
    /\ Exit(-1, {"Usage"})
    /\ UNCHANGED <<envVars, diskVars, argVars, gateVars, n, directoryString,
                   fileVars, histVars>>

\* lines 23-38
ParseArgs ==
    /\ pc = "parse"
    /\ ~(Len(argv) < 3 \/ Len(argv) > 6)
    /\ hlslFolder' = argv[2]
    /\ slangc' = IF Len(argv) = 4 THEN argv[4] ELSE <<>>
    /\ mainEntryPoint' = IF Len(argv) = 6 THEN argv[6]
                         ELSE IF Len(argv) = 5 THEN argv[5]
                         ELSE DefaultEntryPoint
    /\ target' = <<>>
    /\ files' = GlobFiles(argv[2], dir)
    /\ pc' = "stat"
    /\ UNCHANGED <<envVars, diskVars, exitCode, printed, gateVars, n,
                   directoryString, fileVars, histVars>>

\* lines 40-57
FreshnessCheck ==
    /\ pc = "stat"
    /\ outputModTime' = IF outputHeader.exists THEN outputHeader.mtime ELSE 0
    /\ numFiles' = Len(files)
    /\ n' = 0
    /\ rebuildNeeded' = AnyNewer(dir, outputModTime')
    /\ entryPointFile' = EntryPointFileOf(files, mainEntryPoint)
    /\ pc' = "gate"
    /\ UNCHANGED <<envVars, diskVars, exitCode, printed, argVars,
                   directoryString, fileVars, histVars>>

\* lines 59-62
EarlyOut ==
    /\ pc = "gate"
    /\ ~rebuildNeeded
    /\ Exit(0, {"Nothing to be done"})
    /\ UNCHANGED <<envVars, diskVars, argVars, gateVars, n, directoryString,
                   fileVars, histVars>>

\* line 65
PackerEnabled == Len(slangc) > 0 /\ Len(entryPointFile) > 0

\* line 65, condition false: on to line 126
SkipPacker ==
    /\ pc = "gate"
    /\ rebuildNeeded
    /\ ~PackerEnabled
    /\ pc' = "open"
    /\ UNCHANGED <<envVars, diskVars, exitCode, printed, argVars, gateVars, n,
                   directoryString, fileVars, histVars>>

\* line 67, as written
WantsPlatformTarget(tgt) == tgt # Metal \/ tgt # Dxil \/ tgt # Spirv

\* lines 68-73
PlatformTarget ==
    IF platformSystem = "Darwin" THEN Metal
    ELSE IF platformSystem = "Windows" THEN Dxil
    ELSE Spirv

\* lines 65-73
SelectTarget ==
    /\ pc = "gate"
    /\ rebuildNeeded
    /\ PackerEnabled
    /\ ~WantsPlatformTarget(target) \/ platformSystem \in {"Darwin", "Windows", "Linux"}
    /\ target' = IF WantsPlatformTarget(target) THEN PlatformTarget ELSE target
    /\ pc' = "compile"
    /\ UNCHANGED <<envVars, diskVars, exitCode, printed, hlslFolder, slangc,
                   mainEntryPoint, files, gateVars, n, directoryString,
                   fileVars, histVars>>

\* lines 74-76
UnsupportedPlatform ==
    /\ pc = "gate"
    /\ rebuildNeeded
    /\ PackerEnabled
    /\ WantsPlatformTarget(target)
    /\ platformSystem \notin {"Darwin", "Windows", "Linux"}
    /\ Exit(-1, {"Unsupported platform"})
    /\ UNCHANGED <<envVars, diskVars, argVars, gateVars, n, directoryString,
                   fileVars, histVars>>

\* lines 78-108, compiler returns non-zero
CompileFailed ==
    /\ pc = "compile"
    /\ slangResult.returncode # 0
    /\ Exit(-1, {"Compliation failed"})
    /\ UNCHANGED <<envVars, diskVars, argVars, gateVars, n, directoryString,
                   fileVars, histVars>>

\* lines 78-105, compiler returns zero
Compile ==
    /\ pc = "compile"
    /\ slangResult.returncode = 0
    /\ pc' = "pack"
    /\ UNCHANGED <<envVars, diskVars, exitCode, printed, argVars, gateVars, n,
                   directoryString, fileVars, histVars>>

\* lines 109-123, the loop completes and the secondary header is written
WriteCompiledHeader ==
    /\ pc = "pack"
    /\ ~PackWords(slangResult.data).raised
    /\ compiledHeader' =
          [exists |-> TRUE, byRun |-> run,
           path |-> CompiledFileOf(target, argv[3], mainEntryPoint),
           variableName |-> VariableNameOf(target, mainEntryPoint),
           numWords |-> NumWordsOf(Len(slangResult.data)),
           headerStr |-> PackWords(slangResult.data).headerStr]
    /\ pc' = "open"
    /\ UNCHANGED <<envVars, outputHeader, exitCode, printed, argVars, gateVars, n,
                   directoryString, fileVars, histVars>>

\* line 115 raises IndexError: the interpreter prints the traceback and exits 1
PackIndexError ==
    /\ pc = "pack"
    /\ PackWords(slangResult.data).raised
    /\ Exit(1, {"IndexError"})
    /\ UNCHANGED <<envVars, diskVars, argVars, gateVars, n, directoryString,
                   fileVars, histVars>>

\* lines 126-142: the output is truncated, the banner and namespace written
OpenOutput ==
    /\ pc = "open"
    /\ outWritable
    /\ outputHeader' =
          [exists |-> TRUE, mtime |-> now, byRun |-> run,
           banner |-> <<argv[1], numFiles, hlslFolder, NameSpaceNameOf(argv[3])>>,
           strings |-> <<>>, directory |-> <<>>, closed |-> FALSE]
    /\ directoryString' = DirectoryBegin
    /\ fileIdx' = 1
    /\ pc' = "files"
    /\ UNCHANGED <<envVars, compiledHeader, exitCode, printed, argVars, gateVars,
                   n, lines, stringName, currOutputStr, lineNo, histVars>>

\* lines 131-133
OpenOutputFailed ==
    /\ pc = "open"
    /\ ~outWritable
    /\ Exit(-1, {"Failed to open output header"})
    /\ UNCHANGED <<envVars, diskVars, argVars, gateVars, n, directoryString,
                   fileVars, histVars>>

\* lines 145-177: the next file is opened and read, its constant declared
OpenInput ==
    /\ pc = "files"
    /\ fileIdx <= Len(files)
    /\ dir[fileIdx].readable
    /\ lines' = <<LineDirective(files[fileIdx])>> \o ReadLines(dir[fileIdx].text)
    /\ stringName' = StringNameOf(files[fileIdx])
    /\ printed' = IF stringName' = directorySymbolName
                  THEN printed \cup {"name conflict"} ELSE printed
    /\ outputHeader' =
          [outputHeader EXCEPT !.strings =
              Append(@, [name |-> stringName', from |-> files[fileIdx],
                         chunks |-> <<>>, done |-> FALSE])]
    /\ currOutputStr' = <<>>
    /\ lineNo' = 0
    /\ pc' = "lines"
    /\ UNCHANGED <<envVars, compiledHeader, exitCode, argVars, gateVars, n,
                   directoryString, fileIdx, histVars>>

\* lines 154-156
OpenInputFailed ==
    /\ pc = "files"
    /\ fileIdx <= Len(files)
    /\ ~dir[fileIdx].readable
    /\ Exit(-1, {"Failed to open"})
    /\ UNCHANGED <<envVars, diskVars, argVars, gateVars, n, directoryString,
                   fileVars, histVars>>

\* the chunks of the string being written, with one more
AddChunk(header, chunk) ==
    [header EXCEPT !.strings[Len(header.strings)].chunks = Append(@, chunk)]

\* lines 180-205: one line of the file
MinifyLine ==
    /\ pc = "lines"
    /\ lineNo < Len(lines)
    /\ lineNo' = lineNo + 1
    /\ LET ln == AppendFinalNewline(TransformLine(lines[lineNo + 1]), lineNo', Len(lines))
           cur == currOutputStr \o ln
       IN  IF Len(cur) > ChunkLimit
           THEN /\ outputHeader' = AddChunk(outputHeader, cur)
                /\ currOutputStr' = <<>>
           ELSE /\ outputHeader' = outputHeader
                /\ currOutputStr' = cur
    /\ UNCHANGED <<envVars, compiledHeader, pc, exitCode, printed, argVars,
                   gateVars, n, directoryString, fileIdx, lines, stringName, histVars>>

\* lines 207-216: the string is closed and the file entered in the directory
FinishFile ==
    /\ pc = "lines"
    /\ lineNo = Len(lines)
    /\ outputHeader' =
          [AddChunk(outputHeader, currOutputStr)
              EXCEPT !.strings[Len(outputHeader.strings)].done = TRUE]
    /\ n' = n + 1
    /\ directoryString' =
          DirectoryAppend(directoryString, n', Len(files),
                          Basename(files[fileIdx]), stringName)
    /\ fileIdx' = fileIdx + 1
    /\ pc' = "files"
    /\ UNCHANGED <<envVars, compiledHeader, exitCode, printed, argVars,
                   outputModTime, numFiles, rebuildNeeded, entryPointFile,
                   lines, stringName, currOutputStr, lineNo, histVars>>

\* lines 218-223
WriteDirectory ==
    /\ pc = "files"
    /\ fileIdx > Len(files)
    /\ outputHeader' = [outputHeader EXCEPT !.directory = directoryString,
                                            !.closed = TRUE]
    /\ pc' = "exit"
    /\ exitCode' = 0
    /\ UNCHANGED <<envVars, compiledHeader, printed, argVars, gateVars, n,
                   directoryString, fileVars, histVars>>

\* the tool is run again: same arguments, same inputs, the disk as it was left
NextRun ==
    /\ pc = "exit"
    /\ run < MaxRuns
    /\ run' = run + 1
    /\ prev' = [exitCode |-> exitCode, printed |-> printed,
                opened |-> outputHeader.byRun = run,
                openTime |-> outputHeader.mtime]
    /\ now' \in {now, now + 1}
    /\ pc' = "parse"
    /\ exitCode' = 0
    /\ printed' = {}
    /\ hlslFolder' = <<>>
    /\ slangc' = <<>>
    /\ mainEntryPoint' = <<>>
    /\ target' = <<>>
    /\ files' = <<>>
    /\ outputModTime' = 0
    /\ numFiles' = 0
    /\ n' = 0
    /\ rebuildNeeded' = FALSE
    /\ entryPointFile' = <<>>
    /\ directoryString' = <<>>
    /\ fileIdx' = 0
    /\ lines' = <<>>
    /\ stringName' = <<>>
    /\ currOutputStr' = <<>>
    /\ lineNo' = 0
    /\ UNCHANGED <<envVars, diskVars>>

-----------------------------------------------------------------------------
(* The environments the runs are checked in. *)

\* every text of at most len characters over alphabet
TextsUpTo(alphabet, len) == UNION {[1..k -> alphabet] : k \in 0..len}

\* listings of at most MaxFiles files with different names
Listings(fileSet) ==
    UNION {{l \in [1..k -> fileSet] :
               \A i, j \in 1..k : i # j => l[i].name # l[j].name} : k \in 0..MaxFiles}

FooHlsl == <<"f", "o", "o", ".", "h", "l", "s", "l">>
FooSlang == <<"f", "o", "o", ".", "s", "l", "a", "n", "g">>
DirectoryHlsl == <<"D", "i", "r", "e", "c", "t", "o", "r", "y", ".", "h", "l", "s", "l">>
MainSlang == DefaultEntryPoint \o <<".", "s", "l", "a", "n", "g">>

ScriptName == <<"m", ".", "p", "y">>
OutputName == <<"o", "u", "t", "/", "o", ".", "h">>
SlangcPath == <<"s", "l", "a", "n", "g", "c">>
Foo == <<"f", "o", "o">>
PlainFolder == <<"s">>

\* sys.argv of every length from 2 to 7: script, folder, output, compiler,
\* entry point, target, and one argument too many
Argvs ==
    {SubSeq(<<ScriptName, PlainFolder, OutputName, SlangcPath, Foo, Spirv, <<"x">>>>, 1, k) :
        k \in 2..7}

\* the files of the folder, with every modification time and readability
SomeFiles ==
    [name : {FooHlsl, FooSlang, DirectoryHlsl}, mtime : 1..MaxTime,
     readable : BOOLEAN, text : {<<"x", ";", NL>>}]

\* folders whose files' paths hold slashes, backslashes and runs of them
Folders ==
    {PlainFolder, <<"a", "/", "b">>, <<"a", "/", "/", "b">>, <<"a", BS, "b">>,
     <<BS, BS, "h", BS, "b">>, <<"/", "/", "h", "/", "b">>}

\* the characters a shader line is made of here
Alphabet == {"n", "/", BS, NL, " ", QT}

ByteVals == {18, 171}

Platforms == {"Darwin", "Windows", "Linux", "Java"}

CompilerResults ==
    {[returncode |-> 1, data |-> <<>>]}
    \cup [returncode : {0}, data : TextsUpTo(ByteVals, MaxBytes)]

InitEnv(argvs, listings, platforms, results, writable) ==
    /\ argv \in argvs
    /\ dir \in listings
    /\ \A i \in 1..Len(dir) : GlobMatch(dir[i].name)
    /\ platformSystem \in platforms
    /\ slangResult \in results
    /\ outWritable \in writable
    /\ now = StartTime
    /\ outputHeader = NoHeader
    /\ compiledHeader = NoCompiledHeader
    /\ run = 1
    /\ prev = NoPrev
    /\ ProcessStart

\* every set of input files, times and readability; no compiler
InitFiles ==
    InitEnv({SubSeq(a, 1, 3) : a \in {b \in Argvs : Len(b) >= 3}}, Listings(SomeFiles),
            {"Linux"}, {[returncode |-> 1, data |-> <<>>]}, BOOLEAN)

\* every command line, platform and compiler outcome; the entry point present
InitArgs ==
    InitEnv(Argvs,
            {<<[name |-> FooHlsl, mtime |-> 1, readable |-> TRUE, text |-> <<"x", ";", NL>>],
               [name |-> MainSlang, mtime |-> 1, readable |-> TRUE, text |-> <<"m", ";", NL>>]>>},
            Platforms, CompilerResults, {TRUE})

\* one file of every content
InitTexts ==
    InitEnv({<<ScriptName, PlainFolder, OutputName>>},
            {<<[name |-> FooHlsl, mtime |-> 1, readable |-> TRUE, text |-> t]>> :
                t \in TextsUpTo(Alphabet, MaxLen)},
            {"Linux"}, {[returncode |-> 1, data |-> <<>>]}, {TRUE})

\* one file in every folder
InitFolders ==
    InitEnv({<<ScriptName, f, OutputName>> : f \in Folders},
            {<<[name |-> FooHlsl, mtime |-> 1, readable |-> TRUE, text |-> t]>> :
                t \in {<<>>, <<"x", ";", NL>>, <<"x", ";", NL, "/", "/", "c">>}},
            {"Linux"}, {[returncode |-> 1, data |-> <<>>]}, {TRUE})

Init == InitFiles \/ InitArgs \/ InitTexts \/ InitFolders

Next ==
    \/ Usage
    \/ ParseArgs
    \/ FreshnessCheck
    \/ EarlyOut
    \/ SkipPacker
    \/ SelectTarget
    \/ UnsupportedPlatform
    \/ CompileFailed
    \/ Compile
    \/ WriteCompiledHeader
    \/ PackIndexError
    \/ OpenOutput
    \/ OpenOutputFailed
    \/ OpenInput
    \/ OpenInputFailed
    \/ MinifyLine
    \/ FinishFile
    \/ WriteDirectory
    \/ NextRun

Spec == Init /\ [][Next]_vars

-----------------------------------------------------------------------------
(* Properties. *)

\* the string generated for the i-th file: the concatenation of its chunks
GeneratedString(i) == Concat(outputHeader.strings[i].chunks)

\* the strings of the primary artifact that have been written completely
DoneStrings == {i \in 1..Len(outputHeader.strings) : outputHeader.strings[i].done}

\* this run has reached its freshness decision
AtGate == pc = "gate"

\* this run has ended, and it wrote the whole primary artifact
RebuiltThisRun == pc = "exit" /\ outputHeader.byRun = run /\ outputHeader.closed

RECURSIVE NewlineTokens(_)
\* the escaped-newline tokens of a literal's body, read as the C lexer reads
\* it: a backslash takes the character after it
NewlineTokens(s) ==
    IF s = <<>> THEN 0
    ELSE IF Head(s) = BS /\ Len(s) > 1
         THEN (IF s[2] = "n" THEN 1 ELSE 0) + NewlineTokens(SubSeq(s, 3, Len(s)))
         ELSE NewlineTokens(Tail(s))

\* C1: at the freshness decision, a rebuild is needed exactly when the output
\* is absent or some input's mtime (so the maximum M) is greater than the
\* output's mtime T.
C1_FreshnessGate ==
    AtGate =>
        (rebuildNeeded <=>
            (~outputHeader.exists
             \/ \E i \in 1..Len(dir) : dir[i].mtime > outputHeader.mtime))

\* the entry point name the command line asks for: the 4th argument if given
RequestedEntryPoint == IF Len(argv) >= 5 THEN argv[5] ELSE DefaultEntryPoint

\* C2: whenever the Minifier is about to start (so a rebuild is needed) with a
\* compiler path as third argument and an input file matching the entry point
\* name, the Binary Packer has run in this run and written the secondary
\* header, named after the requested entry point.
C2_PackerRunsWhenCompilerGiven ==
    (/\ pc = "open"
     /\ Len(argv) >= 4
     /\ \E i \in 1..Len(files) : IsSubstring(RequestedEntryPoint, files[i]))
    => (/\ compiledHeader.exists
        /\ compiledHeader.byRun = run
        /\ IsPrefix(Txt_g_s \o RequestedEntryPoint, compiledHeader.variableName))

\* ceil(b / 4) as the least k with 4k >= b
CeilQuarter(b) == CHOOSE k \in 0..b : 4 * k >= b /\ \A m \in 0..b : 4 * m >= b => k <= m

\* C3: once the compiler has succeeded on B bytes, the Binary Packer completes,
\* and the array it writes declares and holds ceil(B/4) entries, entry i being
\* the bytes 4i+3, 4i+2, 4i+1, 4i in hexadecimal.
C3_WordArrayLength ==
    /\ "IndexError" \notin printed
    /\ compiledHeader.byRun = run =>
          LET data == slangResult.data
              entries == EntriesOf(compiledHeader.headerStr)
          IN  /\ Len(entries) = CeilQuarter(Len(data))
              /\ compiledHeader.numWords = CeilQuarter(Len(data))
              /\ \A i \in 1..Len(entries) :
                    entries[i] = <<"0", "x">>
                        \o HexOfByte(data[4 * i]) \o HexOfByte(data[4 * i - 1])
                        \o HexOfByte(data[4 * i - 2]) \o HexOfByte(data[4 * i - 3])

\* C4: a completely written primary artifact has a directory table that opens,
\* then holds one entry per input file in processing order, keyed by the file's
\* name and valued by the constant written for that file, a separator after
\* every entry but the last, and the closing once, after the last entry.
C4_DirectoryTableComplete ==
    outputHeader.closed =>
        LET d == outputHeader.directory
            count == Len(dir)
        IN  /\ Len(outputHeader.strings) = count
            /\ Len(d) = 2 * count + 1
            /\ d[1].kind = "begin"
            /\ \A i \in 1..count :
                  /\ d[2 * i] = DirToken("entry", dir[i].name, outputHeader.strings[i].name)
                  /\ d[2 * i + 1].kind = (IF i = count THEN "end" ELSE "separator")

\* C4's case: an artifact written from two files
C4_Witness == outputHeader.closed /\ Len(dir) = 2 /\ pc = "exit"

\* C5: when a run has written the primary artifact, the constants' names are
\* pairwise distinct and differ from the directory table's name, or the run
\* reported a name conflict.
C5_SymbolsUnique ==
    RebuiltThisRun =>
        \/ "name conflict" \in printed
        \/ /\ \A i, j \in 1..Len(outputHeader.strings) :
                 i # j => outputHeader.strings[i].name # outputHeader.strings[j].name
           /\ \A i \in 1..Len(outputHeader.strings) :
                 outputHeader.strings[i].name # directorySymbolName

\* C6 as stated: the generated string of a file has as many escaped-newline
\* tokens as the file has lines.
C6_LineCountPreserved ==
    \A i \in DoneStrings : NewlineTokens(GeneratedString(i)) = Len(ReadLines(dir[i].text))

\* C6 as amended: the generated string of a file has two escaped-newline tokens
\* more than the file has line terminators (one for the directive line, one
\* appended after the last line).
C6_LineTerminatorsPlusTwo ==
    \A i \in DoneStrings : NewlineTokens(GeneratedString(i)) = Count(NL, dir[i].text) + 2

\* C6's case: a file of several lines, with a comment and a backslash, whose
\* last line has no terminator
C6_Witness ==
    \E i \in DoneStrings :
        /\ Len(ReadLines(dir[i].text)) >= 2
        /\ dir[i].text[Len(dir[i].text)] # NL
        /\ IsSubstring(<<"/", "/">>, dir[i].text)

\* the previous run ended successfully having written the output
PrevRebuilt == run > 1 /\ prev.exitCode = 0 /\ prev.opened

\* C7 as stated: after a run that wrote its output, the next run of the same
\* command on the same inputs needs no rebuild.
C7_SecondRunNothingToDo == (AtGate /\ PrevRebuilt) => ~rebuildNeeded

\* the previous run left an output no input is newer than
PrevLeftFreshOutput ==
    /\ run > 1
    /\ \/ prev.opened /\ \A i \in 1..Len(dir) : dir[i].mtime <= prev.openTime
       \/ "Nothing to be done" \in prev.printed

\* C7 as amended: if the previous run opened its output at a time no input's
\* mtime is later than (or itself found nothing to rebuild), the next run finds
\* nothing to rebuild, exits 0 and writes no artifact.
C7_NothingToDoUnlessInputLater ==
    PrevLeftFreshOutput =>
        /\ AtGate => ~rebuildNeeded
        /\ pc = "exit" =>
              /\ "Nothing to be done" \in printed
              /\ exitCode = 0
              /\ outputHeader.byRun # run
              /\ compiledHeader.byRun # run

\* C7's case: the second run has ended after a first run that wrote the output
\* from two files, one as old as the output
C7_Witness ==
    /\ pc = "exit"
    /\ PrevRebuilt
    /\ PrevLeftFreshOutput
    /\ Len(dir) = 2
    /\ \E i \in 1..Len(dir) : dir[i].mtime = prev.openTime

\* the directive line as it should read inside the literal: the whole path,
\* backslashes turned to slashes, between escaped quotes, then the newline token
EscapedDirective(hlslFile) ==
    <<"#", "l", "i", "n", "e", " ", "1", " ", BS, QT>>
        \o SubEach(BS, <<"/">>, hlslFile) \o <<BS, QT, BS, "n">>

\* C8: the generated string of every file starts with the line-1 directive
\* carrying the file's whole path with its backslashes turned to slashes.
C8_LineDirectiveCarriesPath ==
    \A i \in DoneStrings :
        IsPrefix(EscapedDirective(outputHeader.strings[i].from), GeneratedString(i))

\* a line without what follows its first "//", its terminator kept
CutComment(ln) ==
    LET I == {i \in 1..Len(ln) : OccursAt(<<"/", "/">>, ln, i)}
        first == CHOOSE i \in I : \A j \in I : i <= j
    IN  IF I = {} THEN ln
        ELSE SubSeq(ln, 1, first - 1) \o (IF ln[Len(ln)] = NL THEN <<NL>> ELSE <<>>)

\* lines 184-190 on a line whose comment is already cut
EscapeLine(ln) == EscapeQuotes(CollapseWhitespace(EscapeNewlines(DoubleBackslashes(ln))))

\* C9: after the directive line, the generated string of a file is its raw
\* lines, each without what follows its first "//" and each still one line,
\* escaped, then the final newline token.
C9_CommentsStripped ==
    \A i \in DoneStrings :
        LET raw == ReadLines(dir[i].text)
        IN  GeneratedString(i) =
                TransformLine(LineDirective(outputHeader.strings[i].from))
                \o Concat([k \in 1..Len(raw) |-> EscapeLine(CutComment(raw[k]))])
                \o <<BS, "n">>

\* C10: when a run ends with nothing to be done and a primary artifact exists,
\* that artifact was written to its end.
C10_NoStalePartialArtifact ==
    (pc = "exit" /\ "Nothing to be done" \in printed /\ outputHeader.exists)
        => outputHeader.closed

====
